---- MODULE Spec2Model ----
(***************************************************************************)
(* Model of src/lambda_function.py: an AWS Lambda handler offering CRUD    *)
(* over the DynamoDB table "Tasks".                                        *)
(*                                                                         *)
(* A step of the model is one call on the table together with the code of  *)
(* the invocation that runs before and after it.  Every handler calls the  *)
(* table once, except delete_task, which calls get_item and, later,        *)
(* delete_item: other invocations may run between the two.                 *)
(*                                                                         *)
(* A Python str, and so a JSON text, is the sequence of its code points.   *)
(* Python values are records [type, val]:                                  *)
(*   str      val is the sequence of its code points                       *)
(*   int      val is its decimal text: "-" when negative, then the digits  *)
(*            without leading zero                                         *)
(*   Decimal  val is the decimal text of an integer: a number as the table *)
(*            returns it                                                   *)
(*   bool     val is a boolean                                             *)
(*   None     val is "None"                                                *)
(*   list     val is a sequence of values                                  *)
(*   dict     val is a sequence of pairs <<key, value>>, in insertion      *)
(*            order, no key twice                                          *)
(*   float    val is the text read: a JSON number with a fraction or an    *)
(*            exponent, NaN, Infinity.  The table takes no float, so the   *)
(*            handler never writes one                                     *)
(*                                                                         *)
(* The table is a function from primary keys to items; an item is a        *)
(* function from attribute names to values and always holds its key under  *)
(* "id".  Its operations behave as the DynamoDB calls the code makes:      *)
(* put_item replaces, update_item without a condition expression also      *)
(* creates, a scan returns one page of 1 MB at most in any order, an item   *)
(* is returned with its attributes in any order and its numbers as         *)
(* Decimal, an item has 400 KB at most and nests 32 deep at most.  The     *)
(* code reads the table without ConsistentRead: get_item and scan may      *)
(* answer from a copy of the table that lacks the latest writes.           *)
(***************************************************************************)
EXTENDS Integers, Sequences, FiniteSets, TLC

VARIABLES
    table,      \* content of the DynamoDB table "Tasks" (line 7)
    stale,      \* content of a copy of the table that the latest writes may not have reached
    generated,  \* log of the values uuid.uuid4() has returned (line 30)
    pending,    \* id -> number of invocations of delete_task between lines 95 and 99
    untouched,  \* history: id -> item stored by its create, until a PUT or DELETE names the id
    pre,        \* history: content of the table before the call that ended the last answered request
    event,      \* the last request lambda_handler has answered
    resp,       \* the envelope lambda_handler returned for it
    fault,      \* history: str(e) of the table call that raised during it, empty if none
    nreq        \* number of invocations started so far

vars == <<table, stale, generated, pending, untouched, pre, event, resp, fault, nreq>>

---------------------------------------------------------------------------
(* Bounds *)

MaxRequests == 2    \* invocations per behaviour

---------------------------------------------------------------------------
(* Python strings *)

\* The characters from " " to "_" and from "a" to "~", in the order of
\* their code points, and the characters beyond "~" that the texts of this
\* module are written with.
Ascii32 == " !\"#$%&'()*+,-./0123456789:;<=>?@ABCDEFGHIJKLMNOPQRSTUVWXYZ[\\]^_"
Ascii97 == "abcdefghijklmnopqrstuvwxyz{|}~"
Latin1 == ("ã" :> 227) @@ ("ó" :> 243) @@ ("â" :> 226) @@ ("é" :> 233) @@ ("ç" :> 231)

\* The code point of the i-th character of s is first + i - 1.
Consecutive(s, first) ==
    [c \in {SubSeq(s, i, i) : i \in 1..Len(s)} |->
        first - 1 + CHOOSE i \in 1..Len(s) : SubSeq(s, i, i) = c]

\* ord(c)
Ord == Consecutive(Ascii32, 32) @@ Consecutive(Ascii97, 97) @@ Latin1

\* The str a literal of this module denotes.
Text(s) == [i \in 1..Len(s) |-> Ord[SubSeq(s, i, i)]]

\* The code points of the characters the formats of this module name.
Space == 32    \* space
Quote == 34    \* "
Plus == 43    \* +
Comma == 44    \* ,
Minus == 45    \* -
Dot == 46    \* .
Slash == 47    \* /
Zero == 48    \* 0
Five == 53    \* 5
Nine == 57    \* 9
Colon == 58    \* :
UpperA == 65    \* A
UpperE == 69    \* E
UpperF == 70    \* F
UpperI == 73    \* I
UpperN == 78    \* N
LeftBracket == 91    \* [
Backslash == 92    \* \
RightBracket == 93    \* ]
LowerA == 97    \* a
LowerB == 98    \* b
LowerE == 101    \* e
LowerF == 102    \* f
LowerN == 110    \* n
LowerR == 114    \* r
LowerT == 116    \* t
LowerU == 117    \* u
LeftBrace == 123    \* {
RightBrace == 125    \* }
DigitChars == Zero..Nine
ExponentChars == {LowerE, UpperE}

\* The first position from i on of s that holds a member of cs, Len(s) + 1
\* when there is none.
FirstIn(s, i, cs) ==
    LET found == {j \in i..Len(s) : s[j] \in cs}
    IN  IF found = {} THEN Len(s) + 1 ELSE CHOOSE k \in found : \A l \in found : k <= l

\* The first position from i on of s that holds no member of cs.
FirstNotIn(s, i, cs) ==
    LET found == {j \in i..Len(s) : s[j] \notin cs}
    IN  IF found = {} THEN Len(s) + 1 ELSE CHOOSE k \in found : \A l \in found : k <= l

\* s in t, for two strings: s occurs in t.
Occurs(s, t) ==
    \E i \in 1..(Len(t) - Len(s) + 1) : SubSeq(t, i, i + Len(s) - 1) = s

---------------------------------------------------------------------------
(* Natural numbers of any size: the sequence of the decimal digits, the    *)
(* most significant first, without leading zero.                           *)

\* The digits of a natural number of the model.
RECURSIVE Digits(_)
Digits(n) == IF n < 10 THEN <<n>> ELSE Append(Digits(n \div 10), n % 10)

\* The number a text of digits denotes, for a number of the model.
RECURSIVE ValueOf(_, _)
ValueOf(t, i) == IF i = 0 THEN 0 ELSE 10 * ValueOf(t, i - 1) + (t[i] - Zero)
Value(t) == ValueOf(t, Len(t))

\* Digits as text, and back.
DigitText(x) == [i \in DOMAIN x |-> Zero + x[i]]
DigitValues(t) == [i \in DOMAIN t |-> t[i] - Zero]

\* x without its leading zeros.
Strip(x) == SubSeq(x, IF FirstNotIn(x, 1, {0}) > Len(x) THEN Len(x) ELSE FirstNotIn(x, 1, {0}), Len(x))

\* x with zeros in front, n digits long.
Pad(x, n) == [i \in 1..n |-> IF i <= n - Len(x) THEN 0 ELSE x[i - (n - Len(x))]]

Longest(x, y) == IF Len(x) < Len(y) THEN Len(y) ELSE Len(x)

\* x < y
Less(x, y) ==
    \/ Len(x) < Len(y)
    \/ /\ Len(x) = Len(y)
       /\ \E i \in DOMAIN x : x[i] < y[i] /\ \A j \in 1..(i - 1) : x[j] = y[j]

Odd(x) == x[Len(x)] % 2 = 1

\* x \div 2: a digit is halved together with what the digit before it left.
Halve(x) == Strip([i \in DOMAIN x |-> (10 * (IF i = 1 THEN 0 ELSE x[i - 1] % 2) + x[i]) \div 2])

\* x \div 2^8
Halve8(x) == Halve(Halve(Halve(Halve(Halve(Halve(Halve(Halve(x))))))))

\* x % 2^8, which the last eight digits of x decide.
Low8(x) ==
    Value(DigitText(SubSeq(x, IF Len(x) > 8 THEN Len(x) - 7 ELSE 1, Len(x)))) % 256

\* 2 * x: a digit of 5 or more carries 1 into the digit before it.
Double(x) ==
    (IF x[1] >= 5 THEN <<1>> ELSE <<>>)
    \o [i \in DOMAIN x |-> (2 * x[i] + (IF i < Len(x) /\ x[i + 1] >= 5 THEN 1 ELSE 0)) % 10]

\* 2^8 * x
Double8(x) == Double(Double(Double(Double(Double(Double(Double(Double(x))))))))

\* x * 2^e
RECURSIVE Shift(_, _)
Shift(x, e) ==
    IF e = 0 \/ x = <<0>> THEN x
    ELSE IF e < 8 THEN Shift(Double(x), e - 1)
    ELSE Shift(Double8(x), e - 8)

\* The digits after position i of x and y, which have one length, carry 1
\* into position i when they are added.
Carry(x, y, i) ==
    \E j \in (i + 1)..Len(x) :
        x[j] + y[j] >= 10 /\ \A k \in (i + 1)..(j - 1) : x[k] + y[k] = 9

\* x + y, for x and y of one length.
Sum(x, y) ==
    (IF Carry(x, y, 0) THEN <<1>> ELSE <<>>)
    \o [i \in DOMAIN x |-> (x[i] + y[i] + (IF Carry(x, y, i) THEN 1 ELSE 0)) % 10]

Add(x, y) == Sum(Pad(x, Longest(x, y)), Pad(y, Longest(x, y)))

\* The digits after position i of x and y borrow 1 from position i when y
\* is taken from x.
Borrow(x, y, i) ==
    \E j \in (i + 1)..Len(x) : x[j] < y[j] /\ \A k \in (i + 1)..(j - 1) : x[k] = y[k]

\* x - y, for x and y of one length and y <= x.
Difference(x, y) ==
    Strip([i \in DOMAIN x |-> (10 + x[i] - y[i] - (IF Borrow(x, y, i) THEN 1 ELSE 0)) % 10])

Sub(x, y) == Difference(x, Pad(y, Len(x)))

TwoTo52 == <<4, 5, 0, 3, 5, 9, 9, 6, 2, 7, 3, 7, 0, 4, 9, 6>>
TwoTo53 == <<9, 0, 0, 7, 1, 9, 9, 2, 5, 4, 7, 4, 0, 9, 9, 2>>
TwoTo61 == <<2, 3, 0, 5, 8, 4, 3, 0, 0, 9, 2, 1, 3, 6, 9, 3, 9, 5, 2>>

---------------------------------------------------------------------------
(* float(n) and its repr, for a natural number n: the double nearest to n  *)
(* (ties to the even mantissa), written with the fewest digits that read   *)
(* back as that double.                                                    *)

\* n = q * 2^e + r with q < 2^53 and r < 2^e; half is the highest bit of
\* r, sticky tells whether another bit of r is 1.  m is the same for
\* n \div 2.
MantissaStep(n, m) ==
    [q |-> m.q, e |-> m.e + 1,
     half |-> IF m.e = 0 THEN Odd(n) ELSE m.half,
     sticky |-> m.e > 0 /\ (m.sticky \/ Odd(n))]

\* The same from m for n \div 2^8, which is 2^53 at least.
MantissaStep8(n, m) ==
    [q |-> m.q, e |-> m.e + 8, half |-> m.half, sticky |-> m.sticky \/ Low8(n) # 0]

RECURSIVE Mantissa(_)
Mantissa(n) ==
    IF Less(n, TwoTo53) THEN [q |-> n, e |-> 0, half |-> FALSE, sticky |-> FALSE]
    ELSE IF Less(n, TwoTo61) THEN MantissaStep(n, Mantissa(Halve(n)))
    ELSE MantissaStep8(n, Mantissa(Halve8(n)))

\* The mantissa rounded to the nearest, a tie to the even one; one that
\* reaches 2^53 is 2^52 with the next exponent.
RoundedMantissa(m) ==
    IF ~(m.half /\ (m.sticky \/ Odd(m.q))) THEN [q |-> m.q, e |-> m.e]
    ELSE IF Add(m.q, <<1>>) = TwoTo53 THEN [q |-> TwoTo52, e |-> m.e + 1]
    ELSE [q |-> Add(m.q, <<1>>), e |-> m.e]

\* c lies between lo and hi; the ends count for an even mantissa.
Between(c, lo, hi, even) ==
    IF even THEN ~Less(c, lo) /\ ~Less(hi, c) ELSE Less(lo, c) /\ Less(c, hi)

\* The numbers of k digits and zeros next to d: below it, or d itself, and
\* above it.
Lower(d, k) == [i \in DOMAIN d |-> IF i <= k THEN d[i] ELSE 0]
Upper(d, k) == Add(Lower(d, k), [i \in 1..(Len(d) - k + 1) |-> IF i = 1 THEN 1 ELSE 0])

\* c reads back as the double whose interval has the ends lo4 / 4 and hi4 / 4.
ReadsBack(c, lo4, hi4, even) == Between(Double(Double(c)), lo4, hi4, even)

\* The numbers of digits, 17 at most, with which a number reads back as d.
Enough(d, lo4, hi4, even) ==
    {k \in 1..(IF Len(d) < 17 THEN Len(d) ELSE 17) :
        \/ ReadsBack(Lower(d, k), lo4, hi4, even)
        \/ ReadsBack(Upper(d, k), lo4, hi4, even)}

\* Of the numbers of k digits that read back as d, the nearest to d.
Nearest(d, c1, c2, in1, in2) ==
    IF in1 /\ in2 THEN (IF Less(Sub(d, c1), Sub(c2, d)) THEN c1 ELSE c2)
    ELSE IF in1 THEN c1 ELSE c2

ShortestOf(d, lo4, hi4, even, k) ==
    Nearest(d, Lower(d, k), Upper(d, k),
            ReadsBack(Lower(d, k), lo4, hi4, even), ReadsBack(Upper(d, k), lo4, hi4, even))

ShortestAmong(d, lo4, hi4, even, ks) ==
    ShortestOf(d, lo4, hi4, even, CHOOSE k \in ks : \A j \in ks : k <= j)

\* The number with the fewest digits that reads back as d.
Shortest(d, lo4, hi4, even) == ShortestAmong(d, lo4, hi4, even, Enough(d, lo4, hi4, even))

\* The double d = q * 2^e, whose neighbours are ulp away, but the one below
\* 2^52 * 2^e half as far.
FloatDigits(q, d, ulp) ==
    Shortest(d, Sub(Double(Double(d)), IF q = TwoTo52 THEN ulp ELSE Double(ulp)),
             Add(Double(Double(d)), Double(ulp)), ~Odd(q))

\* c without its trailing zeros.
Significant(c) ==
    SubSeq(c, 1, CHOOSE i \in DOMAIN c : c[i] # 0 /\ \A j \in (i + 1)..Len(c) : c[j] = 0)

\* The number written for a double: the digits before the point when its
\* exponent is below 16, else one digit, the others and the exponent.
FloatFormat(c, sig) ==
    IF Len(c) <= 16 THEN DigitText(c) \o <<Dot, Zero>>
    ELSE <<Zero + sig[1]>>
         \o (IF Len(sig) > 1 THEN <<Dot>> \o DigitText(SubSeq(sig, 2, Len(sig))) ELSE <<>>)
         \o <<LowerE, Plus>> \o DigitText(Digits(Len(c) - 1))

FloatText(c) == FloatFormat(c, Significant(c))

\* A double of 2^1024 or more is inf.
FloatOf(m) ==
    IF m.e > 971 THEN Text("Infinity")
    ELSE FloatText(FloatDigits(m.q, Shift(m.q, m.e), Shift(<<1>>, m.e)))

\* repr(float(n))
FloatRepr(n) ==
    IF Less(n, TwoTo53) THEN DigitText(n) \o <<Dot, Zero>>
    ELSE FloatOf(RoundedMantissa(Mantissa(n)))

---------------------------------------------------------------------------
(* Python values *)

Str(s) == [type |-> "str", val |-> s]
\* An int, by its decimal text.
Integer(text) == [type |-> "int", val |-> text]
Decimal(text) == [type |-> "Decimal", val |-> text]
\* A float, by the text json.loads read it from.
Float(text) == [type |-> "float", val |-> text]
Bool(b) == [type |-> "bool", val |-> b]
None == [type |-> "None", val |-> "None"]
List(s) == [type |-> "list", val |-> s]
Dict(pairs) == [type |-> "dict", val |-> pairs]

EmptyDict == Dict(<<>>)

Range(f) == {f[i] : i \in DOMAIN f}

\* The keys of a dict.
Keys(d) == {d.val[i][1] : i \in DOMAIN d.val}

\* d[k], for a key of d.
Item(d, k) == LET i == CHOOSE j \in DOMAIN d.val : d.val[j][1] = k IN d.val[i][2]

\* d.get(k)
Get(d, k) == IF k \in Keys(d) THEN Item(d, k) ELSE None

\* d[k] = v: a new key goes last, a known key keeps its place.
SetItem(d, k, v) ==
    IF k \in Keys(d)
    THEN Dict([i \in DOMAIN d.val |-> IF d.val[i][1] = k THEN <<k, v>> ELSE d.val[i]])
    ELSE Dict(Append(d.val, <<k, v>>))

NaN == Text("NaN")
Infinity == Text("Infinity")
MinusInfinity == Text("-Infinity")

\* 2^-1075, half the smallest double above zero, is 0.d * 10^-323 for the
\* digits d of 5^1075.  float(text) is 0.0 for a text that denotes a number
\* up to it.
HalfMinDigits ==
    Text(
    "2470328229206232720882843964341106861825299013071623822127928412"
    \o "5033775363510437593264991818081799618989828234772285886546332835"
    \o "5177969898199387398005390939063150356595155702263922908583924491"
    \o "0518443593180284993653615250031937045767824921936562366986365848"
    \o "0757001585769269903706311928279558551332927834338409351978015531"
    \o "2465972635795746227664652728272200563740064854999770965994704540"
    \o "2082816622623785739345073633900796776193057750674017632467360096"
    \o "8951340535537458516661134223766678604162159680461914467291840300"
    \o "5300575308490487653917113865916462395249126236538818796362393732"
    \o "8042389101867234849766823508986338858792562830275599565752445550"
    \o "7255189313690836254779186948667994968324049705821028513185451396"
    \o "213837722826145437693412532098591327667236328125"
    )
HalfMinExponent == 0 - 323

\* The i-th digit of the fraction 0.x
FractionDigit(x, i) == IF i <= Len(x) THEN x[i] ELSE Zero

\* 0.x < 0.y
FractionLess(x, y) ==
    \E i \in 1..Longest(x, y) :
        /\ FractionDigit(x, i) < FractionDigit(y, i)
        /\ \A j \in 1..(i - 1) : FractionDigit(x, j) = FractionDigit(y, j)

\* The number 0.sig * 10^(point + exponent) rounds to 0.0; sig starts with a
\* digit that is not zero, the exponent is written as digits, without
\* leading zero, and is negative when neg.
RoundsToZero(sig, point, neg, digits) ==
    IF Len(digits) > 9 THEN neg
    ELSE LET e == point + (IF neg THEN 0 - 1 ELSE 1) * Value(digits)
         IN  \/ e < HalfMinExponent
             \/ e = HalfMinExponent /\ ~FractionLess(HalfMinDigits, sig)

\* The mantissa has the digits d, of which the first point ones stand
\* before the point; expo is the text after e or E.
FloatScaled(d, point, expo, signed) ==
    IF FirstNotIn(d, 1, {Zero}) > Len(d) THEN TRUE
    ELSE RoundsToZero(SubSeq(d, FirstNotIn(d, 1, {Zero}), Len(d)),
                      point - (FirstNotIn(d, 1, {Zero}) - 1),
                      signed /\ expo[1] = Minus,
                      SubSeq(expo, FirstNotIn(expo, IF signed THEN 2 ELSE 1, {Zero}), Len(expo)))

\* The number text t has its mantissa from position start to ep - 1 and
\* its point, if any, at position dot (dot = ep without point).
FloatMantissa(t, start, dot, ep) ==
    FloatScaled(SubSeq(t, start, dot - 1) \o SubSeq(t, dot + 1, ep - 1), dot - start,
                SubSeq(t, ep + 1, Len(t)),
                ep < Len(t) /\ t[ep + 1] \in {Plus, Minus})

FloatExponent(t, start, ep) ==
    FloatMantissa(t, start, IF FirstIn(t, start, {Dot}) < ep THEN FirstIn(t, start, {Dot}) ELSE ep, ep)

\* float(text) == 0.0: every digit of the mantissa is 0, or the number is
\* too small for a double.
FloatIsZero(text) ==
    IF text \in {NaN, Infinity, MinusInfinity} THEN FALSE
    ELSE FloatExponent(text, IF text[1] = Minus THEN 2 ELSE 1,
                       FirstIn(text, 1, ExponentChars))

\* bool(v)
Truthy(v) ==
    CASE v.type = "str" -> Len(v.val) > 0
      [] v.type \in {"int", "Decimal"} -> v.val # <<Zero>>
      [] v.type = "float" -> ~FloatIsZero(v.val)
      [] v.type = "bool" -> v.val
      [] v.type = "None" -> FALSE
      [] v.type \in {"list", "dict"} -> Len(v.val) > 0

\* type(v).__name__
TypeName(v) == IF v.type = "None" THEN "NoneType" ELSE v.type

---------------------------------------------------------------------------
(* json.dumps(body, cls=DecimalEncoder), with the default separators and   *)
(* ensure_ascii                                                            *)

\* The hexadecimal digit of a value below 16, in lower case.
HexDigit(v) == IF v < 10 THEN Zero + v ELSE LowerA + (v - 10)

\* \uXXXX for a code point below 2^16.
EscapeU(c) ==
    <<Backslash, LowerU, HexDigit((c \div 4096) % 16), HexDigit((c \div 256) % 16),
      HexDigit((c \div 16) % 16), HexDigit(c % 16)>>

\* The characters json.dumps writes with a letter after a backslash.
Escaped ==
    (Quote :> Text("\\\"")) @@ (Backslash :> Text("\\\\")) @@ (10 :> Text("\\n"))
    @@ (13 :> Text("\\r")) @@ (9 :> Text("\\t")) @@ (12 :> Text("\\f")) @@ (8 :> Text("\\b"))

\* The characters json.dumps writes as themselves: space to ~, but the
\* quote and the backslash.
Plain == (32..126) \ {Quote, Backslash}

\* A character as json.dumps writes it; one above U+FFFF is written as its
\* two surrogates.
DumpsChar(c) ==
    IF c \in Plain THEN <<c>>
    ELSE IF c \in DOMAIN Escaped THEN Escaped[c]
    ELSE IF c < 65536 THEN EscapeU(c)
    ELSE EscapeU(55296 + ((c - 65536) \div 1024)) \o EscapeU(56320 + ((c - 65536) % 1024))

\* The characters of s from position i on, as json.dumps writes them; j is
\* the first position that holds a character not written as itself.
RECURSIVE DumpsChars(_, _)
DumpsCharsTo(s, i, j) ==
    IF j > Len(s) THEN SubSeq(s, i, Len(s))
    ELSE SubSeq(s, i, j - 1) \o DumpsChar(s[j]) \o DumpsChars(s, j + 1)

DumpsChars(s, i) == DumpsCharsTo(s, i, FirstNotIn(s, i, Plain))

DumpsStr(s) == <<Quote>> \o DumpsChars(s, 1) \o <<Quote>>

\* DecimalEncoder.default (lines 12-15): a Decimal is written as the float
\* of its value.
DumpsDecimal(text) ==
    (IF text[1] = Minus THEN <<Minus>> ELSE <<>>)
    \o FloatRepr(DigitValues(SubSeq(text, FirstIn(text, 1, DigitChars), Len(text))))

RECURSIVE DumpsValue(_)
RECURSIVE DumpsMembers(_, _)
RECURSIVE DumpsElements(_, _)

\* The separators of json.dumps.
ItemSeparator == <<Comma, Space>>
KeySeparator == <<Colon, Space>>

\* The members of a dict, in insertion order.
DumpsMembers(pairs, i) ==
    IF i > Len(pairs) THEN <<>>
    ELSE (IF i = 1 THEN <<>> ELSE ItemSeparator)
         \o DumpsStr(pairs[i][1]) \o KeySeparator \o DumpsValue(pairs[i][2])
         \o DumpsMembers(pairs, i + 1)

DumpsElements(s, i) ==
    IF i > Len(s) THEN <<>>
    ELSE (IF i = 1 THEN <<>> ELSE ItemSeparator) \o DumpsValue(s[i]) \o DumpsElements(s, i + 1)

DumpsDict(d) == <<LeftBrace>> \o DumpsMembers(d.val, 1) \o <<RightBrace>>

DumpsList(l) == <<LeftBracket>> \o DumpsElements(l.val, 1) \o <<RightBracket>>

DumpsValue(v) ==
    CASE v.type = "str" -> DumpsStr(v.val)
      [] v.type = "int" -> v.val
      [] v.type = "Decimal" -> DumpsDecimal(v.val)
      [] v.type = "bool" -> IF v.val THEN Text("true") ELSE Text("false")
      [] v.type = "None" -> Text("null")
      [] v.type = "list" -> DumpsList(v)
      [] v.type = "dict" -> DumpsDict(v)

---------------------------------------------------------------------------
(* json.loads *)

EndOfText == 0 - 1

Char(s, i) == IF i > Len(s) THEN EndOfText ELSE s[i]

Whitespace == {Space, 9, 10, 13}

\* The characters a backslash may introduce in a string, and what they
\* stand for.
Unescaped ==
    (Quote :> Quote) @@ (Backslash :> Backslash) @@ (Slash :> Slash)
    @@ (LowerB :> 8) @@ (LowerF :> 12) @@ (LowerN :> 10) @@ (LowerR :> 13)
    @@ (LowerT :> 9)

\* The value of a hexadecimal digit, in either case.
HexValue ==
    [c \in DigitChars |-> c - Zero]
    @@ [c \in LowerA..LowerF |-> c - LowerA + 10]
    @@ [c \in UpperA..UpperF |-> c - UpperA + 10]

\* Characters that may not occur raw in a string.
ControlChars == 0..31

HighSurrogates == 55296..56319
LowSurrogates == 56320..57343

\* Result of parsing a value of text s from position i: the value and the
\* position after it, or a failure.
Parsed(v, i) == [ok |-> TRUE, val |-> v, next |-> i]
ParseError == [ok |-> FALSE, val |-> None, next |-> 0]

\* The first position from i on of s that holds no whitespace.
SkipWhitespace(s, i) ==
    IF Char(s, i) \notin Whitespace THEN i ELSE FirstNotIn(s, i, Whitespace)

\* Four hexadecimal digits stand at positions i to i + 3 of s.
IsHex4(s, i) == i + 3 <= Len(s) /\ \A k \in i..(i + 3) : s[k] \in DOMAIN HexValue

\* Their value.
Hex4(s, i) ==
    4096 * HexValue[s[i]] + 256 * HexValue[s[i + 1]] + 16 * HexValue[s[i + 2]]
    + HexValue[s[i + 3]]

RECURSIVE ParseChars(_, _, _)

\* The escape \uXXXX at position j, of value c.  A high surrogate followed
\* by the escape of a low surrogate stands, with it, for one character.
ParseSurrogate(s, j, read, c) ==
    IF /\ c \in HighSurrogates
       /\ Char(s, j + 6) = Backslash /\ Char(s, j + 7) = LowerU
       /\ j + 12 <= Len(s)
    THEN IF ~IsHex4(s, j + 8) THEN ParseError
         ELSE IF Hex4(s, j + 8) \in LowSurrogates
         THEN ParseChars(s, j + 12,
                         Append(read, 65536 + (c - 55296) * 1024 + (Hex4(s, j + 8) - 56320)))
         ELSE ParseChars(s, j + 6, Append(read, c))
    ELSE ParseChars(s, j + 6, Append(read, c))

\* The escape sequence at position j of a string; read holds the characters
\* read so far.
ParseEscape(s, j, read) ==
    IF Char(s, j + 1) \in DOMAIN Unescaped
    THEN ParseChars(s, j + 2, Append(read, Unescaped[Char(s, j + 1)]))
    ELSE IF Char(s, j + 1) = LowerU /\ IsHex4(s, j + 2)
    THEN ParseSurrogate(s, j, read, Hex4(s, j + 2))
    ELSE ParseError

\* The characters of a string from position i, whose first quote, backslash
\* or control character stands at position j.
ParseCharsTo(s, i, acc, j) ==
    IF j > Len(s) \/ s[j] \in ControlChars THEN ParseError
    ELSE IF s[j] = Quote THEN Parsed(acc \o SubSeq(s, i, j - 1), j + 1)
    ELSE ParseEscape(s, j, acc \o SubSeq(s, i, j - 1))

\* The characters of a string, from position i (after the opening quote) to
\* the closing quote; acc holds the characters read so far.
ParseChars(s, i, acc) ==
    ParseCharsTo(s, i, acc, FirstIn(s, i, {Quote, Backslash} \cup ControlChars))

\* The end of a digit sequence that starts at position i: the position after
\* it, i when no digit stands there.
DigitsEnd(s, i) == FirstNotIn(s, i, DigitChars)

\* int() refuses a text of more digits (sys.get_int_max_str_digits()).
MaxStrDigits == 4300

\* The int written from position i to f - 1, its digits from position j.
\* -0 is 0.
ParseInt(s, i, j, f) ==
    IF f - j > MaxStrDigits THEN ParseError
    ELSE IF SubSeq(s, j, f - 1) = <<Zero>> THEN Parsed(Integer(<<Zero>>), f)
    ELSE Parsed(Integer(SubSeq(s, i, f - 1)), f)

\* A number is an optional sign, then 0 or a digit sequence without leading
\* zero, then an optional fraction and an optional exponent.  Without
\* fraction and exponent it is an int, else a float.  A point or an e that
\* no digit follows is not part of the number.

\* The number that starts at position i, whose fraction, if any, ends before
\* position frac, and whose exponent has its digits from position e.
ParseExponent(s, i, j, f, frac, e) ==
    IF DigitsEnd(s, e) > e THEN Parsed(Float(SubSeq(s, i, DigitsEnd(s, e) - 1)), DigitsEnd(s, e))
    ELSE IF frac = f THEN ParseInt(s, i, j, f)
    ELSE Parsed(Float(SubSeq(s, i, frac - 1)), frac)

\* The number that starts at position i, whose integer part has its digits
\* from position j to f - 1 and whose fraction ends before position frac
\* (frac = f without fraction).
ParseNumberTail(s, i, j, f, frac) ==
    IF Char(s, frac) \in ExponentChars
    THEN ParseExponent(s, i, j, f, frac,
                       IF Char(s, frac + 1) \in {Plus, Minus} THEN frac + 2 ELSE frac + 1)
    ELSE IF frac = f THEN ParseInt(s, i, j, f)
    ELSE Parsed(Float(SubSeq(s, i, frac - 1)), frac)

\* The number that starts at position i and whose integer part has its
\* digits from position j to f - 1.
ParseFraction(s, i, j, f) ==
    IF Char(s, f) = Dot /\ DigitsEnd(s, f + 1) > f + 1
    THEN ParseNumberTail(s, i, j, f, DigitsEnd(s, f + 1))
    ELSE ParseNumberTail(s, i, j, f, f)

\* The number that starts at position i and has its first digit at j.
ParseInteger(s, i, j) ==
    IF Char(s, j) = Zero THEN ParseFraction(s, i, j, j + 1)
    ELSE IF Char(s, j) \in DigitChars THEN ParseFraction(s, i, j, DigitsEnd(s, j))
    ELSE ParseError

ParseNumber(s, i) == ParseInteger(s, i, IF Char(s, i) = Minus THEN i + 1 ELSE i)

ParseLiteral(s, i, word, v) ==
    IF i + Len(word) - 1 <= Len(s) /\ SubSeq(s, i, i + Len(word) - 1) = word
    THEN Parsed(v, i + Len(word))
    ELSE ParseError

\* A string value, from the result of ParseChars.
ParseString(chars) == IF chars.ok THEN Parsed(Str(chars.val), chars.next) ELSE ParseError

\* A value other than an object or an array, which starts at position i
\* with the character c.
ParseScalar(s, i, c) ==
    CASE c = Quote -> ParseString(ParseChars(s, i + 1, <<>>))
      [] c = LowerN -> ParseLiteral(s, i, Text("null"), None)
      [] c = LowerT -> ParseLiteral(s, i, Text("true"), Bool(TRUE))
      [] c = LowerF -> ParseLiteral(s, i, Text("false"), Bool(FALSE))
      [] c = UpperN -> ParseLiteral(s, i, NaN, Float(NaN))
      [] c = UpperI -> ParseLiteral(s, i, Infinity, Float(Infinity))
      [] c = Minus /\ Char(s, i + 1) = UpperI ->
            ParseLiteral(s, i, MinusInfinity, Float(MinusInfinity))
      [] c = Minus \/ c \in DigitChars -> ParseNumber(s, i)
      [] OTHER -> ParseError

\* The scanner calls itself for the value of every member and element, and
\* Python raises RecursionError when a call has no frame left.  With the
\* recursion limit of 1000 (sys.getrecursionlimit()) and lambda_handler
\* called from the top level of a module, an object or array may stand
\* inside 993 others; every frame between the two takes one off.
MaxNesting == 994

\* The scanner at work on text s.  stack holds the objects and arrays it is
\* inside of, the outermost first: of each the members or elements read
\* (acc) and, for an object, the key whose value is being read.  Either a
\* value is expected at position next, or (after) the value val was read
\* and ends before position next; done, val is the value of the text.
Scanning(stack, i) ==
    [ok |-> TRUE, done |-> FALSE, after |-> FALSE, stack |-> stack, val |-> None, next |-> i]
Scanned(stack, v, i) ==
    [ok |-> TRUE, done |-> FALSE, after |-> TRUE, stack |-> stack, val |-> v, next |-> i]
ScanError ==
    [ok |-> FALSE, done |-> TRUE, after |-> FALSE, stack |-> <<>>, val |-> None, next |-> 0]

Frame(acc, key) == [acc |-> acc, key |-> key]
Pop(stack) == SubSeq(stack, 1, Len(stack) - 1)

\* A member whose key was parsed as key, inside the object that holds the
\* members d: after the key come a colon and the value.
ScanKeyColon(s, stack, d, key, colon) ==
    IF Char(s, colon) # Colon THEN ScanError
    ELSE Scanning(Append(stack, Frame(d, key.val)), SkipWhitespace(s, colon + 1))

\* A member of the object that holds the members d, its key at position i.
ScanKey(s, stack, d, i) ==
    IF Char(s, i) # Quote THEN ScanError
    ELSE LET key == ParseChars(s, i + 1, <<>>)
         IN  IF ~key.ok THEN ScanError
             ELSE ScanKeyColon(s, stack, d, key, SkipWhitespace(s, key.next))

\* An object whose first member, if any, is at j.
ScanObject(s, stack, j) ==
    IF Char(s, j) = RightBrace THEN Scanned(stack, EmptyDict, j + 1)
    ELSE ScanKey(s, stack, EmptyDict, j)

\* An array whose first element, if any, is at j.
ScanArray(s, stack, j) ==
    IF Char(s, j) = RightBracket THEN Scanned(stack, List(<<>>), j + 1)
    ELSE Scanning(Append(stack, Frame(List(<<>>), <<>>)), j)

\* The value that starts at position m.next with the character c; an
\* object or array may stand inside limit - 1 others.
ScanValue(s, m, c, limit) ==
    IF c \in {LeftBrace, LeftBracket}
    THEN IF Len(m.stack) >= limit THEN ScanError
         ELSE IF c = LeftBrace
         THEN ScanObject(s, m.stack, SkipWhitespace(s, m.next + 1))
         ELSE ScanArray(s, m.stack, SkipWhitespace(s, m.next + 1))
    ELSE LET value == ParseScalar(s, m.next, c)
         IN  IF value.ok THEN Scanned(m.stack, value.val, value.next) ELSE ScanError

\* After a member of the innermost object, which now holds the members d,
\* at position j.
ScanNextMember(s, stack, d, j) ==
    IF Char(s, j) = RightBrace THEN Scanned(stack, d, j + 1)
    ELSE IF Char(s, j) = Comma THEN ScanKey(s, stack, d, SkipWhitespace(s, j + 1))
    ELSE ScanError

\* After an element of the innermost array, which now holds the elements l,
\* at position j.
ScanNextElement(s, stack, l, j) ==
    IF Char(s, j) = RightBracket THEN Scanned(stack, List(l), j + 1)
    ELSE IF Char(s, j) = Comma
    THEN Scanning(Append(stack, Frame(List(l), <<>>)), SkipWhitespace(s, j + 1))
    ELSE ScanError

\* The value m.val was read inside top, the innermost object or array.  A
\* key read twice keeps its last value.
ScanNext(s, m, top) ==
    IF top.acc.type = "dict"
    THEN ScanNextMember(s, Pop(m.stack), SetItem(top.acc, top.key, m.val),
                        SkipWhitespace(s, m.next))
    ELSE ScanNextElement(s, Pop(m.stack), Append(top.acc.val, m.val),
                         SkipWhitespace(s, m.next))

\* One step of the scanner.
ScanStep(s, m, limit) ==
    IF ~m.after THEN ScanValue(s, m, Char(s, m.next), limit)
    ELSE IF m.stack = <<>> THEN [m EXCEPT !.done = TRUE]
    ELSE ScanNext(s, m, m.stack[Len(m.stack)])

\* n steps of the scanner, or as many as it takes.
RECURSIVE Scan(_, _, _, _)
Scan(s, m, n, limit) ==
    IF m.done THEN m
    ELSE IF n = 1 THEN ScanStep(s, m, limit)
    ELSE Scan(s, Scan(s, m, n \div 2, limit), n - n \div 2, limit)

\* The value that starts at position i, an object or array standing inside
\* limit - 1 others at most.  A step reads a character at least, but the
\* last.
ParseValueWithin(s, i, limit) == Scan(s, Scanning(<<>>, i), Len(s) + 1, limit)

\* The value that starts at position i, as json.loads reads it.
ParseValue(s, i) == ParseValueWithin(s, i, MaxNesting)

\* The value parsed is the whole text, with whitespace after it at most.
ParseEnd(text, value) ==
    IF value.ok /\ SkipWhitespace(text, value.next) = Len(text) + 1
    THEN Parsed(value.val, value.next) ELSE ParseError

\* The whole text is one value, with whitespace around it at most.
ParseText(text) == ParseEnd(text, ParseValue(text, SkipWhitespace(text, 1)))

\* json.loads(text) returns a value.
Parses(text) == ParseText(text).ok

loads(text) == ParseText(text).val
---------------------------------------------------------------------------
(* Response builder *)

Headers ==
    ("Content-Type" :> "application/json") @@ ("Access-Control-Allow-Origin" :> "*")

\* The message texts of the handler.
MsgCreateRequired == Text("Campos 'title' e 'date' são obrigatórios.")
MsgTaskNotFound == Text("Tarefa não encontrada.")
MsgNothingToUpdate == Text("Nenhum campo para atualizar.")
MsgDateRequired == Text("Parâmetro 'date' é obrigatório. Ex: /tasks?date=2025-12-04")
MsgIdRequired == Text("Parâmetro 'id' é obrigatório.")
MsgRouteNotFound == Text("Rota não encontrada.")
MsgUpdateError(e) == Text("Erro ao atualizar: ") \o e
MsgInternalError(e) == Text("Erro interno: ") \o e

\* str(e) of the exceptions Python raises on a body that is no dict.
NoAttributeGet(v) == Text("'" \o TypeName(v) \o "' object has no attribute 'get'")
NotIterable(v) == Text("argument of type '" \o TypeName(v) \o "' is not iterable")
ListIndices == Text("list indices must be integers or slices, not str")
StringIndices == Text("string indices must be integers, not 'str'")

\* The keys of the dicts the code builds and reads.
KeyId == Text("id")
KeyTitle == Text("title")
KeyDescription == Text("description")
KeyDate == Text("date")
KeyMessage == Text("message")
KeyItem == Text("Item")
KeyAttributes == Text("Attributes")
KeyItems == Text("Items")

Message(m) == Dict(<<<<KeyMessage, Str(m)>>>>)

---------------------------------------------------------------------------
(* The domains the requests of the model are drawn from *)

\* uuid4 never returns a value twice; its n-th value is named u<n>.
Uuid(n) == Text("u") \o DigitText(Digits(n))
ForeignIds == {Text("x")}           \* an id no create ever returns
Titles == {Text("A"), <<>>}
Descriptions == {Text("ç")}
Dates == {Text("d1"), Text("d2")}
StoreErrors == {Text("boom")}      \* str(e) of an exception raised by a table call

Fields == {KeyTitle, KeyDescription, KeyDate}
AttrNames == <<KeyId, KeyTitle, KeyDescription, KeyDate>>

\* The orders in which the table returns the attributes of an item, numbered.
AttrOrders == <<AttrNames, <<KeyDate, KeyDescription, KeyTitle, KeyId>> >>

\* Body texts that are a JSON object, with values from Titles, Descriptions
\* and Dates for some of the three fields; the description is written as
\* the character itself and as its escape.
ObjectBodies ==
    <<Text("{}"),
      Text("{\"title\": \"A\"}"),
      Text("{\"title\": \"\"}"),
      Text("{\"description\": \"ç\"}"),
      Text("{\"date\": \"d2\"}"),
      Text("{\"title\": \"A\", \"date\": \"d1\"}"),
      Text("{\"title\": \"A\", \"date\": \"d2\"}"),
      Text("{\"title\": \"\", \"date\": \"d1\"}"),
      Text("{\"title\": \"A\", \"date\": \"\"}"),
      Text("{\"title\": \"A\", \"description\": \"\\u00E7\", \"date\": \"d1\"}")>>

\* A text that is no JSON.
MalformedBody == Text("{title:")

\* A JSON text json.loads cannot read: an array inside MaxNesting others.
DeepBody ==
    [i \in 1..(2 * MaxNesting + 2) |->
        IF i <= MaxNesting + 1 THEN LeftBracket ELSE RightBracket]

\* A JSON object with title and date that json.loads cannot read: its third
\* member is an array inside MaxNesting others.
DeepMemberBody ==
    Text("{\"title\": \"A\", \"date\": \"d1\", \"x\": ")
    \o [i \in 1..(2 * MaxNesting) |-> IF i <= MaxNesting THEN LeftBracket ELSE RightBracket]
    \o Text("}")

\* Body texts that are JSON but no object; an object written another way
\* than json.dumps writes it: without spaces, the keys in another order,
\* with a key the handler does not know and a number for title; an object
\* whose description is a number with a fraction.
OtherBodies ==
    <<Text("null"), Text("[]"), Text("\"title\""),
      Text("{\"done\":true,\"date\":\"d1\",\"title\":7}"),
      Text("{\"title\": \"A\", \"description\": 1.5, \"date\": \"d1\"}")>>

\* The body texts a client may send, numbered; the empty text is a request
\* without body.
BodyTexts == ObjectBodies \o <<<<>>, MalformedBody, DeepBody, DeepMemberBody>> \o OtherBodies
RawBodies == Range(BodyTexts)

---------------------------------------------------------------------------
(* The table's operations (boto3 Table resource), as the code calls them *)

Without(f, k) == [i \in DOMAIN f \ {k} |-> f[i]]

\* A value as the table returns it once stored: a number comes back as a
\* Decimal.
RECURSIVE Stored(_)
Stored(v) ==
    CASE v.type = "int" -> Decimal(v.val)
      [] v.type = "list" -> List([i \in DOMAIN v.val |-> Stored(v.val[i])])
      [] v.type = "dict" ->
            Dict([i \in DOMAIN v.val |-> <<v.val[i][1], Stored(v.val[i][2])>>])
      [] OTHER -> v

\* A number of the table has 38 digits at most.
MaxPrecision == 38
\* The largest exponent of the first digit of a number.
MaxExponent == 126

FloatUnsupported == Text("Float types are not supported. Use Decimal types instead.")
DecimalRounded == Text("[<class 'decimal.Rounded'>]")
DecimalInexact == Text("[<class 'decimal.Inexact'>, <class 'decimal.Rounded'>]")
DecimalOverflow ==
    Text("[<class 'decimal.Overflow'>, <class 'decimal.Inexact'>, <class 'decimal.Rounded'>]")

\* Rounding the digits d to MaxPrecision digits, to the nearest and on a
\* tie to the even one, goes up.
RoundsUp(d) ==
    \/ d[MaxPrecision + 1] > Five
    \/ /\ d[MaxPrecision + 1] = Five
       /\ \/ FirstNotIn(d, MaxPrecision + 2, {Zero}) <= Len(d)
          \/ (d[MaxPrecision] - Zero) % 2 = 1

\* str(e) of the signal an int of more than MaxPrecision digits d raises
\* when the call makes a number of it.
DecimalSignal(d) ==
    IF \/ Len(d) - 1 > MaxExponent
       \/ /\ Len(d) - 1 = MaxExponent /\ RoundsUp(d)
          /\ FirstNotIn(d, 1, {Nine}) > MaxPrecision
    THEN DecimalOverflow
    ELSE IF FirstNotIn(d, MaxPrecision + 1, {Zero}) <= Len(d) THEN DecimalInexact
    ELSE DecimalRounded

\* str(e) of the exception put_item and update_item raise for the value v
\* that is no list and no dict, before they call the service, empty when
\* they take it: the table takes no float, and no int of more than
\* MaxPrecision digits.
NumberRefusal(v) ==
    CASE v.type = "float" -> FloatUnsupported
      [] v.type = "int" ->
            IF Len(SubSeq(v.val, FirstIn(v.val, 1, DigitChars), Len(v.val))) > MaxPrecision
            THEN DecimalSignal(SubSeq(v.val, FirstIn(v.val, 1, DigitChars), Len(v.val)))
            ELSE <<>>
      [] OTHER -> <<>>

\* The values a list or a dict holds, in order.
Members(v) == IF v.type = "list" THEN v.val ELSE [i \in DOMAIN v.val |-> v.val[i][2]]

\* The calls look at a value before the values it holds, and at those in
\* order.  stack holds, innermost last, the values being looked at and the
\* place reached in each.
Visiting(vals) == [vals |-> vals, at |-> 1]
Walking(stack) == [done |-> FALSE, refusal |-> <<>>, stack |-> stack]
Walked(refusal) == [done |-> TRUE, refusal |-> refusal, stack |-> <<>>]

WalkStep(m) ==
    IF m.stack = <<>> THEN Walked(<<>>)
    ELSE LET top == m.stack[Len(m.stack)]
             rest == SubSeq(m.stack, 1, Len(m.stack) - 1)
         IN  IF top.at > Len(top.vals) THEN Walking(rest)
             ELSE LET v == top.vals[top.at]
                      on == Append(rest, [top EXCEPT !.at = @ + 1])
                  IN  IF v.type \in {"list", "dict"}
                      THEN Walking(Append(on, Visiting(Members(v))))
                      ELSE IF NumberRefusal(v) # <<>> THEN Walked(NumberRefusal(v))
                      ELSE Walking(on)

\* n steps of the walk.
RECURSIVE WalkSteps(_, _)
WalkSteps(m, n) ==
    IF m.done THEN m
    ELSE IF n = 1 THEN WalkStep(m)
    ELSE WalkSteps(WalkSteps(m, n \div 2), n - n \div 2)

\* The walk to its end, n steps at first and twice as many each time after.
RECURSIVE Walk(_, _)
Walk(m, n) == IF m.done THEN m ELSE Walk(WalkSteps(m, n), 2 * n)

\* str(e) of the exception put_item and update_item raise for the value v
\* before they call the service: that of the first value they refuse.
Refusal(v) == Walk(Walking(<<Visiting(<<v>>)>>), 1).refusal

\* An attribute of the table nests lists and maps 32 deep at most.
MaxDepth == 32

\* The values held by the lists and dicts among the values S.
Children(S) == UNION {Range(Members(v)) : v \in {c \in S : c.type \in {"list", "dict"}}}

\* The values n levels below the values S.
RECURSIVE Level(_, _)
Level(S, n) == IF n = 0 THEN S ELSE Level(Children(S), n - 1)

\* The value v nests lists and dicts more than MaxDepth deep.
TooDeep(v) == \E c \in Level({v}, MaxDepth) : c.type \in {"list", "dict"}

\* str(e) of the exception put_item raises for an item with an attribute
\* that is too deep, and update_item for the value named key.
PutItemTooDeep ==
    Text("An error occurred (ValidationException) when calling the PutItem operation: Nesting Levels have exceeded supported limits")
UpdateItemTooDeep(key) ==
    Text("An error occurred (ValidationException) when calling the UpdateItem operation: ExpressionAttributeValues contains invalid value: Nesting Levels have exceeded supported limits for key ")
    \o key

\* The stored attributes of an item, as the dict the table returns, its
\* attributes in the order attrs.
AsDict(item, attrs) ==
    LET names == SelectSeq(attrs, LAMBDA a : a \in DOMAIN item)
    IN  Dict([i \in DOMAIN names |-> <<names[i], item[names[i]]>>])

\* put_item(Item=item): insert or replace the item under its key.
put_item(tbl, item) ==
    (Item(item, KeyId).val :> [k \in Keys(item) |-> Stored(Item(item, k))]) @@ tbl

\* get_item(Key={"id": key}): the result has "Item" only when the key is stored
\* in tbl, the copy of the table the call reads.  Without ConsistentRead=True
\* that copy may lack the latest writes.
get_item(tbl, key, attrs) ==
    IF key \in DOMAIN tbl
    THEN Dict(<<<<KeyItem, AsDict(tbl[key], attrs)>>>>)
    ELSE EmptyDict

\* update_item(Key, UpdateExpression="SET a = :a, ...", ReturnValues="ALL_NEW")
\* without a condition expression: the assignments are applied to the stored
\* item, or to a new item holding only the key when none is stored.
update_item(tbl, key, assignments, attrs) ==
    LET old == IF key \in DOMAIN tbl THEN tbl[key] ELSE (KeyId :> Str(key))
        new == [k \in DOMAIN assignments |-> Stored(assignments[k])] @@ old
    IN  [table |-> (key :> new) @@ tbl,
         result |-> Dict(<<<<KeyAttributes, AsDict(new, attrs)>>>>)]

\* delete_item(Key={"id": key})
delete_item(tbl, key) == Without(tbl, key)

\* The orders in which a scan may return the items stored under keys.
Orderings(keys) ==
    {s \in [1..Cardinality(keys) -> keys] : \A i, j \in DOMAIN s : s[i] = s[j] => i = j}

\* A scan reads 1 MB at most.
PageBytes == 1048576

\* The bytes of a string in UTF-8.
Utf8Bytes(s) ==
    Len(s) + Cardinality({i \in DOMAIN s : s[i] >= 128})
    + Cardinality({i \in DOMAIN s : s[i] >= 2048})
    + Cardinality({i \in DOMAIN s : s[i] >= 65536})

\* The digits of a number that count for its size: its digits without
\* the zeros at the end.
SignificantDigits(text) ==
    LET d == SubSeq(text, FirstIn(text, 1, DigitChars), Len(text))
        last == {i \in DOMAIN d : d[i] # Zero}
    IN  Cardinality({i \in DOMAIN d : \E j \in last : i <= j})

RECURSIVE SumFrom(_, _)
SumFrom(sizes, i) == IF i > Len(sizes) THEN 0 ELSE sizes[i] + SumFrom(sizes, i + 1)

\* The size of an attribute value, as DynamoDB counts it.
RECURSIVE ValueBytes(_)
ValueBytes(v) ==
    CASE v.type = "str" -> Utf8Bytes(v.val)
      [] v.type = "Decimal" -> (SignificantDigits(v.val) + 1) \div 2 + 1
      [] v.type = "list" ->
            3 + SumFrom([i \in DOMAIN v.val |-> 1 + ValueBytes(v.val[i])], 1)
      [] v.type = "dict" ->
            3 + SumFrom([i \in DOMAIN v.val |->
                            1 + Utf8Bytes(v.val[i][1]) + ValueBytes(v.val[i][2])], 1)
      [] OTHER -> 1

\* The size of an item: the names and the values of its attributes.
ItemBytes(item) ==
    LET names == SelectSeq(AttrNames, LAMBDA a : a \in DOMAIN item)
    IN  SumFrom([i \in DOMAIN names |-> Utf8Bytes(names[i]) + ValueBytes(item[names[i]])], 1)

\* An item of the table has 400 KB at most.
MaxItemBytes == 409600

\* str(e) of the exception put_item raises for an item of more than
\* MaxItemBytes, and update_item for an update that makes one.
PutItemTooLarge ==
    Text("An error occurred (ValidationException) when calling the PutItem operation: Item size has exceeded the maximum allowed size")
UpdateItemTooLarge ==
    Text("An error occurred (ValidationException) when calling the UpdateItem operation: Item size to update has exceeded the maximum allowed size")

\* The number of items a scan reads, in the order the service chooses: it
\* stops before the item with which it would have read more than PageBytes;
\* n items of bytes bytes are read so far.
RECURSIVE PageEnd(_, _, _, _)
PageEnd(tbl, order, n, bytes) ==
    IF n = Len(order) THEN n
    ELSE IF bytes + ItemBytes(tbl[order[n + 1]]) > PageBytes THEN n
    ELSE PageEnd(tbl, order, n + 1, bytes + ItemBytes(tbl[order[n + 1]]))

\* The one page the code reads: it never asks for the page after
\* LastEvaluatedKey.
Page(tbl, order) == SubSeq(order, 1, PageEnd(tbl, order, 0, 0))

\* The result of a scan that returns the items stored under keys.
ScanResult(tbl, keys, attrs) ==
    Dict(<<<<KeyItems, List([i \in DOMAIN keys |-> AsDict(tbl[keys[i]], attrs)])>>>>)

\* scan(): the items of the first page of tbl, the copy of the table the
\* call reads.
scan(tbl, order, attrs) == ScanResult(tbl, Page(tbl, order), attrs)

\* Attr("date").eq(date): an item without the attribute does not match.
DateEq(item, date) == KeyDate \in DOMAIN item /\ item[KeyDate] = date

\* scan(FilterExpression=Attr("date").eq(date)): the filter is applied to
\* the items of the page.
scan_filter(tbl, date, order, attrs) ==
    ScanResult(tbl, SelectSeq(Page(tbl, order), LAMBDA key : DateEq(tbl[key], date)), attrs)

---------------------------------------------------------------------------
(* The envelope *)

\* The messages the handler answers with.
Messages ==
    {MsgCreateRequired, MsgTaskNotFound, MsgNothingToUpdate, MsgDateRequired,
     MsgIdRequired, MsgRouteNotFound}
    \cup {MsgUpdateError(e) : e \in StoreErrors}
    \cup {MsgInternalError(e) : e \in StoreErrors}

\* json.dumps of the message dicts, tabulated.
Dumped == [d \in {Message(m) : m \in Messages} |-> DumpsValue(d)]

\* json.dumps(body, cls=DecimalEncoder)
dumps(body) == IF body \in DOMAIN Dumped THEN Dumped[body] ELSE DumpsValue(body)

response(status_code, body) ==
    [statusCode |-> status_code, headers |-> Headers, body |-> dumps(body)]

---------------------------------------------------------------------------
(* Task operations.  The outcome of running one: it returned an envelope,  *)
(* it raised, or (delete_task) it goes on to its second call on the table. *)
(* The call an operation makes on the table raises str(e) = err when       *)
(* failAt = 1.  tbl is the table; seen is the copy of it that a get_item   *)
(* or scan of the operation reads.                                         *)

NoResponse == [statusCode |-> 0, headers |-> <<>>, body |-> <<>>]

Outcome(raised, continues, error, r, tbl, flt) ==
    [raised |-> raised, continues |-> continues, error |-> error,
     resp |-> r, table |-> tbl, fault |-> flt]

Returned(r, tbl) == Outcome(FALSE, FALSE, <<>>, r, tbl, <<>>)
\* The code raised an exception of its own.
Raised(e, tbl) == Outcome(TRUE, FALSE, e, NoResponse, tbl, <<>>)
\* A call on the table raised.
Failed(e, tbl) == Outcome(TRUE, FALSE, e, NoResponse, tbl, e)
\* The operation caught the exception of a table call itself.
Caught(e, r, tbl) == Outcome(FALSE, FALSE, <<>>, r, tbl, e)
\* The first call of delete_task found the item.
Continues(tbl) == Outcome(FALSE, TRUE, <<>>, NoResponse, tbl, <<>>)

\* Line 36: title or date is missing or empty.
create_task_required(body) == ~Truthy(Get(body, KeyTitle)) \/ ~Truthy(Get(body, KeyDate))

\* The item create_task builds (lines 39-44).
create_item(body, task_id) ==
    Dict(<< <<KeyId, Str(task_id)>>,
            <<KeyTitle, Get(body, KeyTitle)>>,
            <<KeyDescription,
              IF Truthy(Get(body, KeyDescription)) THEN Get(body, KeyDescription) ELSE Str(<<>>)>>,
            <<KeyDate, Get(body, KeyDate)>> >>)

create_task(body, task_id, tbl, failAt, err) ==
    IF body.type # "dict" THEN Raised(NoAttributeGet(body), tbl)
    ELSE IF create_task_required(body)
    THEN Returned(response(400, Message(MsgCreateRequired)), tbl)
    ELSE LET item == create_item(body, task_id)
         IN  IF Refusal(item) # <<>> THEN Failed(Refusal(item), tbl)
             ELSE IF failAt = 1 THEN Failed(err, tbl)
             ELSE IF \E v \in Range(Members(item)) : TooDeep(v)
             THEN Failed(PutItemTooDeep, tbl)
             ELSE IF ItemBytes(put_item(tbl, item)[task_id]) > MaxItemBytes
             THEN Failed(PutItemTooLarge, tbl)
             ELSE Returned(response(201, item), put_item(tbl, item))

get_task(task_id, tbl, seen, attrs, failAt, err) ==
    IF failAt = 1 THEN Failed(err, tbl)
    ELSE LET result == get_item(seen, task_id, attrs)
             item == Get(result, KeyItem)
         IN  IF ~Truthy(item)
             THEN Returned(response(404, Message(MsgTaskNotFound)), tbl)
             ELSE Returned(response(200, item), tbl)

\* k in body (lines 64, 68, 72), for a body that has the operator.
Contains(body, k) ==
    CASE body.type = "dict" -> k \in Keys(body)
      [] body.type = "list" -> Str(k) \in Range(body.val)
      [] body.type = "str" -> Occurs(k, body.val)

\* The assignments of the update expression: one per field that is a key of body.
update_assignments(body) == [k \in Keys(body) \cap Fields |-> Item(body, k)]

\* The fields that are keys of body, in the order of lines 64-74.
update_names(body) ==
    SelectSeq(<<KeyTitle, KeyDescription, KeyDate>>, LAMBDA k : k \in Keys(body))

\* expression_attribute_values, in that order.
update_values(body) ==
    List([i \in DOMAIN update_names(body) |-> Item(body, update_names(body)[i])])

\* The names lines 64-74 give the values in the update expression.
ValueName == (KeyTitle :> Text(":t")) @@ (KeyDescription :> Text(":d")) @@ (KeyDate :> Text(":dt"))

\* The fields of body whose value is too deep for the table, in order.
update_too_deep(body) ==
    SelectSeq(update_names(body), LAMBDA k : TooDeep(Item(body, k)))

update_task(task_id, body, tbl, attrs, failAt, err) ==
    IF body.type \notin {"dict", "list", "str"} THEN Raised(NotIterable(body), tbl)
    ELSE IF body.type = "list" /\ \E k \in Fields : Contains(body, k)
    THEN Raised(ListIndices, tbl)
    ELSE IF body.type = "str" /\ \E k \in Fields : Contains(body, k)
    THEN Raised(StringIndices, tbl)
    ELSE IF \A k \in Fields : ~Contains(body, k)
    THEN Returned(response(400, Message(MsgNothingToUpdate)), tbl)
    ELSE IF Refusal(update_values(body)) # <<>>
    THEN Caught(Refusal(update_values(body)),
                response(500, Message(MsgUpdateError(Refusal(update_values(body))))), tbl)
    ELSE IF failAt = 1
    THEN Caught(err, response(500, Message(MsgUpdateError(err))), tbl)
    ELSE IF update_too_deep(body) # <<>>
    THEN Caught(UpdateItemTooDeep(ValueName[update_too_deep(body)[1]]),
                response(500, Message(MsgUpdateError(
                    UpdateItemTooDeep(ValueName[update_too_deep(body)[1]])))), tbl)
    ELSE LET out == update_item(tbl, task_id, update_assignments(body), attrs)
         IN  IF ItemBytes(out.table[task_id]) > MaxItemBytes
             THEN Caught(UpdateItemTooLarge,
                         response(500, Message(MsgUpdateError(UpdateItemTooLarge))), tbl)
             ELSE Returned(response(200, Get(out.result, KeyAttributes)), out.table)

\* Lines 95-97 of delete_task: the call of get_item and the answer when no
\* item is stored.
delete_task_get(task_id, tbl, seen, failAt, err) ==
    IF failAt = 1 THEN Failed(err, tbl)
    ELSE IF KeyItem \notin Keys(get_item(seen, task_id, AttrNames))
         THEN Returned(response(404, Message(MsgTaskNotFound)), tbl)
         ELSE Continues(tbl)

\* Lines 99-100 of delete_task: the call of delete_item and the answer.
delete_task_delete(task_id, tbl, failAt, err) ==
    IF failAt = 1 THEN Failed(err, tbl)
    ELSE Returned(response(204, EmptyDict), delete_item(tbl, task_id))

\* delete_task when no other invocation runs between its two calls; the
\* n-th call raises when failAt = n.
delete_task(task_id, tbl, seen, failAt, err) ==
    LET first == delete_task_get(task_id, tbl, seen, failAt, err)
    IN  IF first.continues
        THEN delete_task_delete(task_id, first.table, IF failAt = 2 THEN 1 ELSE 0, err)
        ELSE first

get_tasks_by_date(query_params, tbl, seen, order, attrs, failAt, err) ==
    LET date == Get(query_params, KeyDate)
    IN  IF ~Truthy(date)
        THEN Returned(response(400, Message(MsgDateRequired)), tbl)
        ELSE IF failAt = 1 THEN Failed(err, tbl)
             ELSE LET result == scan_filter(seen, date, order, attrs)
                  IN  Returned(response(200, Get(result, KeyItems)), tbl)

\* Lines 165-167: the list without filter.
scan_all(tbl, seen, order, attrs, failAt, err) ==
    IF failAt = 1 THEN Failed(err, tbl)
    ELSE Returned(response(200, Get(scan(seen, order, attrs), KeyItems)), tbl)

---------------------------------------------------------------------------
(* Router *)

POST_TASKS == "POST /tasks"
GET_TASK == "GET /tasks/{id}"
PUT_TASK == "PUT /tasks/{id}"
DELETE_TASK == "DELETE /tasks/{id}"
GET_TASKS == "GET /tasks"
OtherRoutes == {"PATCH /tasks"}

\* event, after "or {}" of lines 124-125; an empty body is a missing or
\* empty body.
Event(rk, pp, qp, text) ==
    [routeKey |-> rk, pathParameters |-> pp, queryStringParameters |-> qp, body |-> text]

\* Lines 129-132: the value json.loads returned, or {} when it raised.
loaded_or_empty(parse) == IF parse.ok THEN parse.val ELSE EmptyDict

\* Lines 127-132: without body, or with a body json.loads rejects, body is {}.
parse_body(text) ==
    IF text = <<>> THEN EmptyDict ELSE loaded_or_empty(ParseText(text))

\* Lines 141-143, 148-150, 155-157: the route needs a non-empty id.
MissingId(path_params) == ~Truthy(Get(path_params, KeyId))

\* parse_body, tabulated over the body texts of the model.
ParsedBody == [text \in RawBodies |-> parse_body(text)]

\* The body of the event after lines 127-132.
event_body(ev) ==
    IF ev.body \in DOMAIN ParsedBody THEN ParsedBody[ev.body] ELSE parse_body(ev.body)

\* Lines 136-169, up to the first call on the table and, for every route
\* but a delete of a stored task, to the return.
route(ev, body, tbl, seen, task_uuid, order, attrs, failAt, err) ==
    LET route_key == ev.routeKey
        path_params == ev.pathParameters
        query_params == ev.queryStringParameters
        task_id == Get(path_params, KeyId).val
        id_required == Returned(response(400, Message(MsgIdRequired)), tbl)
    IN  CASE route_key = POST_TASKS ->
               create_task(body, task_uuid, tbl, failAt, err)
          [] route_key = GET_TASK ->
               IF MissingId(path_params) THEN id_required
               ELSE get_task(task_id, tbl, seen, attrs, failAt, err)
          [] route_key = PUT_TASK ->
               IF MissingId(path_params) THEN id_required
               ELSE update_task(task_id, body, tbl, attrs, failAt, err)
          [] route_key = DELETE_TASK ->
               IF MissingId(path_params) THEN id_required
               ELSE delete_task_get(task_id, tbl, seen, failAt, err)
          [] route_key = GET_TASKS ->
               IF KeyDate \in Keys(query_params)
               THEN get_tasks_by_date(query_params, tbl, seen, order, attrs, failAt, err)
               ELSE scan_all(tbl, seen, order, attrs, failAt, err)
          [] OTHER ->
               Returned(response(404, Message(MsgRouteNotFound)), tbl)

\* Lines 123-169: the body is parsed, then the request is routed.
dispatch(ev, tbl, seen, task_uuid, order, attrs, failAt, err) ==
    route(ev, event_body(ev), tbl, seen, task_uuid, order, attrs, failAt, err)

\* Variant: no catch-all, the exception leaves the handler.
catch_all_missing(out) ==
    IF out.raised
    THEN [out EXCEPT !.resp = [statusCode |-> 502, headers |-> <<>>, body |-> <<>>]]
    ELSE out

\* Lines 134, 171-173: whatever the dispatch raises becomes a 500 envelope.
catch_all(out) ==
    IF out.raised
    THEN [out EXCEPT !.resp = response(500, Message(MsgInternalError(out.error)))]
    ELSE out

\* An invocation, up to its return or to the second call of delete_task.
lambda_handler(ev, tbl, seen, task_uuid, order, attrs, failAt, err) ==
    catch_all(dispatch(ev, tbl, seen, task_uuid, order, attrs, failAt, err))

\* The rest of an invocation that deletes a stored task.
lambda_handler_delete(ev, tbl, failAt, err) ==
    catch_all(delete_task_delete(Get(ev.pathParameters, KeyId).val, tbl, failAt, err))

---------------------------------------------------------------------------
(* State machine *)

NoEvent == Event("", EmptyDict, EmptyDict, <<>>)

Init ==
    /\ table = <<>>
    /\ stale = <<>>
    /\ generated = <<>>
    /\ pending = <<>>
    /\ untouched = <<>>
    /\ pre = <<>>
    /\ event = NoEvent
    /\ resp = NoResponse
    /\ fault = <<>>
    /\ nreq = 0

\* The ids a client may put in the path.
ClientIds == ForeignIds \cup Range(generated)
PathParams == {Dict(<<<<KeyId, Str(i)>>>>) : i \in ClientIds}
QueryParams == {EmptyDict} \cup {Dict(<<<<KeyDate, Str(d)>>>>) : d \in Dates \cup {<<>>}}

\* One more, one less invocation of delete_task between its two calls.
Suspend(p, id) == IF id \in DOMAIN p THEN [p EXCEPT ![id] = @ + 1] ELSE (id :> 1) @@ p
Resume(p, id) == IF p[id] = 1 THEN Without(p, id) ELSE [p EXCEPT ![id] = @ - 1]

\* The invocation is answered: it becomes the last request.
Answer(ev, out) ==
    /\ pre' = table
    /\ event' = ev
    /\ resp' = out.resp
    /\ fault' = out.fault
    /\ table' = out.table

\* A new invocation has run up to its return, or up to the second call of
\* delete_task, with the outcome out.
Invoke(ev, out) ==
    /\ nreq < MaxRequests
    /\ nreq' = nreq + 1
    /\ stale' = stale
    /\ IF out.continues
       THEN /\ pending' = Suspend(pending, Get(ev.pathParameters, KeyId).val)
            /\ UNCHANGED <<table, pre, event, resp, fault>>
       ELSE /\ Answer(ev, out)
            /\ UNCHANGED pending

\* The copies of the table a get_item or a scan may read.
Copies == {table, stale}

Handle(ev, seen, task_uuid, order, attrs, failAt, err) ==
    Invoke(ev, lambda_handler(ev, table, seen, task_uuid, order, attrs, failAt, err))

\* str(uuid.uuid4()) of line 30: a value distinct from all earlier ones.
uuid4 == Uuid(Len(generated) + 1)

PostTasks(failures) ==
    \E n \in DOMAIN BodyTexts, failAt \in failures, err \in StoreErrors :
      LET u == uuid4
      IN
        /\ Handle(Event(POST_TASKS, EmptyDict, EmptyDict, BodyTexts[n]),
                  table, u, <<>>, AttrNames, failAt, err)
        /\ generated' = Append(generated, u)
        /\ untouched' = IF resp'.statusCode = 201
                        THEN (u :> table'[u]) @@ untouched
                        ELSE untouched

GetTask(failures) ==
    \E pp \in PathParams, failAt \in failures :
     \E seen \in (IF failAt = 0 THEN Copies ELSE {table}),
        a \in (IF failAt = 0 THEN DOMAIN AttrOrders ELSE {1}), err \in StoreErrors :
        /\ Handle(Event(GET_TASK, pp, EmptyDict, <<>>), seen, <<>>, <<>>, AttrOrders[a],
                  failAt, err)
        /\ UNCHANGED <<generated, untouched>>

\* A PUT or a DELETE names the id of pp.
Touch(pp) == IF MissingId(pp) THEN untouched ELSE Without(untouched, Get(pp, KeyId).val)

PutTask(failures) ==
    \E n \in DOMAIN BodyTexts, pp \in PathParams, failAt \in failures :
     \E a \in (IF failAt = 0 THEN DOMAIN AttrOrders ELSE {1}), err \in StoreErrors :
        /\ Handle(Event(PUT_TASK, pp, EmptyDict, BodyTexts[n]), table, <<>>, <<>>,
                  AttrOrders[a], failAt, err)
        /\ untouched' = Touch(pp)
        /\ UNCHANGED generated

\* A delete, up to the answer 404 or to the call of delete_item.
DeleteTask(failures) ==
    \E pp \in PathParams, failAt \in failures, err \in StoreErrors :
     \E seen \in (IF failAt = 0 THEN Copies ELSE {table}) :
        /\ Handle(Event(DELETE_TASK, pp, EmptyDict, <<>>), seen, <<>>, <<>>, AttrNames,
                  failAt, err)
        /\ untouched' = Touch(pp)
        /\ UNCHANGED generated

\* A delete that found its item calls delete_item and returns.
DeleteItem(failures) ==
    \E id \in DOMAIN pending, failAt \in failures, err \in StoreErrors :
      LET ev == Event(DELETE_TASK, Dict(<<<<KeyId, Str(id)>>>>), EmptyDict, <<>>)
      IN
        /\ Answer(ev, lambda_handler_delete(ev, table, failAt, err))
        /\ pending' = Resume(pending, id)
        /\ untouched' = Touch(ev.pathParameters)
        /\ UNCHANGED <<stale, generated, nreq>>

GetTasks(failures) ==
    \E qp \in QueryParams, failAt \in failures :
     \E seen \in (IF failAt = 0 THEN Copies ELSE {table}) :
      \E order \in (IF failAt = 0 THEN Orderings(DOMAIN seen) ELSE {<<>>}),
         a \in (IF failAt = 0 THEN DOMAIN AttrOrders ELSE {1}), err \in StoreErrors :
        /\ Handle(Event(GET_TASKS, EmptyDict, qp, <<>>), seen, <<>>, order, AttrOrders[a],
                  failAt, err)
        /\ UNCHANGED <<generated, untouched>>

\* A request on a route with {id} whose path parameters hold no id.
NoIdRequest ==
    \E rk \in {GET_TASK, PUT_TASK, DELETE_TASK} :
        /\ Handle(Event(rk, EmptyDict, EmptyDict, <<>>), table, <<>>, <<>>, AttrNames, 0, <<>>)
        /\ UNCHANGED <<generated, untouched>>

UnknownRoute ==
    \E rk \in OtherRoutes :
        /\ Handle(Event(rk, EmptyDict, EmptyDict, <<>>), table, <<>>, <<>>, AttrNames, 0, <<>>)
        /\ UNCHANGED <<generated, untouched>>

\* The writes made so far reach the copy.
Propagate ==
    /\ stale # table
    /\ stale' = table
    /\ UNCHANGED <<table, generated, pending, untouched, pre, event, resp, fault, nreq>>

\* The table answers every call, except that update_item may reject the
\* update, the failure update_task handles itself (lines 81-89); DynamoDB
\* rejects, for one, an update expression that names a reserved word.
Next ==
    \/ PostTasks({0})
    \/ GetTask({0})
    \/ PutTask({0, 1})
    \/ DeleteTask({0})
    \/ DeleteItem({0})
    \/ GetTasks({0})
    \/ NoIdRequest
    \/ UnknownRoute
    \/ Propagate

Spec == Init /\ [][Next]_vars

\* Any call on the table may raise.
NextFault ==
    \/ PostTasks({0, 1})
    \/ GetTask({0, 1})
    \/ PutTask({0, 1})
    \/ DeleteTask({0, 1})
    \/ DeleteItem({0, 1})
    \/ GetTasks({0, 1})
    \/ NoIdRequest
    \/ UnknownRoute
    \/ Propagate

SpecFault == Init /\ [][NextFault]_vars
---------------------------------------------------------------------------
(* Properties.  They speak of the last request answered: event, the table   *)
(* before the call that ended it (pre) and after it (table), and the        *)
(* envelope returned (resp).  The body of a request is the JSON value the   *)
(* client sent, whether or not the handler could read it.                   *)

Handled == event # NoEvent
Route == event.routeKey
HasId == KeyId \in Keys(event.pathParameters)
Id == Item(event.pathParameters, KeyId).val
\* The body the client sent, as a reader of JSON without a limit on nesting
\* reads it: {} without body and for a text that is no JSON.
SentBody ==
    [text \in RawBodies |->
        LET value == ParseEnd(text, ParseValueWithin(text, SkipWhitespace(text, 1), Len(text)))
        IN  IF text # <<>> /\ value.ok THEN value.val ELSE EmptyDict]
Body == SentBody[event.body]
\* The fields the body names, and whether it gives one a non-empty value.
Named == IF Body.type = "dict" THEN Keys(Body) \cap Fields ELSE {}
Given(k) == Body.type = "dict" /\ k \in Keys(Body) /\ Truthy(Item(Body, k))
OthersKept(id) == \A j \in DOMAIN pre \ {id} : j \in DOMAIN table /\ table[j] = pre[j]
\* text is the JSON text of the item, its attributes in some order.
Writes(text, item) == \E attrs \in Range(AttrOrders) : text = dumps(AsDict(item, attrs))
\* The JSON texts of the items of tbl stored under keys, in some order.
ItemsIn(tbl, keys) ==
    {dumps(List([i \in DOMAIN s |-> AsDict(tbl[s[i]], attrs)])) :
        s \in Orderings(keys), attrs \in Range(AttrOrders)}

\* C1: every stored task has its id, a non-empty title, a non-empty date and
\* a description attribute (possibly empty), after any sequence of requests.
C1_StoredTasksValid ==
    \A id \in DOMAIN table :
        /\ {KeyId, KeyTitle, KeyDescription, KeyDate} \subseteq DOMAIN table[id]
        /\ table[id][KeyId] = Str(id)
        /\ Truthy(table[id][KeyTitle])
        /\ Truthy(table[id][KeyDate])

\* C2: an update answered 200 on a stored task assigns exactly the fields of
\* title, description, date that are keys of the body (an empty value too),
\* keeps the id, the other attributes and every other task, and returns the
\* whole updated item; an update whose body names none of the three fields
\* is answered 400 and changes nothing.
C2_UpdateAssignsNamedFields ==
    (Handled /\ Route = PUT_TASK /\ HasId) =>
        /\ Named = {} => (resp.statusCode = 400 /\ table = pre)
        /\ (Id \in DOMAIN pre /\ resp.statusCode = 200) =>
              /\ DOMAIN table = DOMAIN pre
              /\ OthersKept(Id)
              /\ DOMAIN table[Id] = DOMAIN pre[Id] \cup Named
              /\ \A k \in Named : table[Id][k] = Stored(Item(Body, k))
              /\ \A k \in DOMAIN pre[Id] \ Named : table[Id][k] = pre[Id][k]
              /\ table[Id][KeyId] = Str(Id)
              /\ Writes(resp.body, table[Id])

\* C3: a create with a non-empty title and a non-empty date is answered 201
\* with an item whose id no earlier create generated, whose title and date are
\* the submitted ones and whose description is the submitted one or "";
\* exactly that item is added to the table (a number as the table keeps it)
\* and the others are unchanged.
C3_CreateAddsOneTask ==
    (Handled /\ Route = POST_TASKS /\ Given(KeyTitle) /\ Given(KeyDate)) =>
        LET id == generated[Len(generated)]
            description == IF KeyDescription \in Keys(Body)
                           THEN Item(Body, KeyDescription) ELSE Str(<<>>)
            item == Dict(<< <<KeyId, Str(id)>>, <<KeyTitle, Item(Body, KeyTitle)>>,
                            <<KeyDescription, description>>,
                            <<KeyDate, Item(Body, KeyDate)>> >>)
        IN  /\ resp.statusCode = 201
            /\ \A i \in 1..(Len(generated) - 1) : generated[i] # id
            /\ id \notin DOMAIN pre
            /\ resp.body = DumpsDict(item)
            /\ DOMAIN table = DOMAIN pre \cup {id}
            /\ table[id] = [k \in Keys(item) |-> Stored(Item(item, k))]
            /\ OthersKept(id)

\* C4: a create whose body lacks title or date, or has one of them empty, is
\* answered 400 whatever else the body holds, and writes nothing.
C4_CreateRejectsMissingField ==
    (Handled /\ Route = POST_TASKS /\ ~(Given(KeyTitle) /\ Given(KeyDate))) =>
        /\ resp.statusCode = 400
        /\ table = pre

\* C5: a get is answered 200 with the stored item exactly when one is stored
\* under the id and 404 otherwise; on the id of a create not named by a later
\* request it returns the created item; on an id no create returned it is
\* answered 404; it never changes the table.
C5_GetReturnsStored ==
    (Handled /\ Route = GET_TASK /\ HasId) =>
        /\ table = pre
        /\ Id \in DOMAIN pre => (resp.statusCode = 200 /\ Writes(resp.body, pre[Id]))
        /\ Id \notin DOMAIN pre => resp.statusCode = 404
        /\ Id \in DOMAIN untouched =>
              (resp.statusCode = 200 /\ Writes(resp.body, untouched[Id]))
        /\ Id \notin Range(generated) => resp.statusCode = 404

\* The step answers a request: at its invocation, or with the second call
\* of a delete.
Answered ==
    \/ nreq' = nreq + 1 /\ pending' = pending
    \/ nreq' = nreq /\ pending' # pending

\* C6: a delete of an id that has a stored item is answered 204 and removes
\* that item only; the get or the delete of the same id that is answered
\* next is answered 404 and changes nothing.
C6_DeleteRemovesOnce ==
    [][ Answered =>
          /\ (Route' = DELETE_TASK /\ HasId' /\ Id' \in DOMAIN pre') =>
                /\ resp'.statusCode = 204
                /\ DOMAIN table' = DOMAIN pre' \ {Id'}
                /\ \A j \in DOMAIN table' : table'[j] = pre'[j]
          /\ (/\ Handled /\ Route = DELETE_TASK /\ HasId /\ resp.statusCode = 204
              /\ Route' \in {GET_TASK, DELETE_TASK} /\ HasId' /\ Id' = Id) =>
                /\ resp'.statusCode = 404
                /\ table' = table
      ]_vars

\* C7: a list without date parameter is answered 200 with exactly the stored
\* tasks; a list with a non-empty date d is answered 200 with exactly the
\* stored tasks whose date equals d; neither changes the table.
C7_ListReturnsMatching ==
    (Handled /\ Route = GET_TASKS) =>
        LET qp == event.queryStringParameters
        IN  /\ table = pre
            /\ KeyDate \notin Keys(qp) =>
                  /\ resp.statusCode = 200
                  /\ resp.body \in ItemsIn(pre, DOMAIN pre)
            /\ (KeyDate \in Keys(qp) /\ Item(qp, KeyDate) # Str(<<>>)) =>
                  /\ resp.statusCode = 200
                  /\ resp.body \in ItemsIn(pre,
                        {id \in DOMAIN pre : /\ KeyDate \in DOMAIN pre[id]
                                             /\ pre[id][KeyDate] = Item(qp, KeyDate)})

\* C8: an update naming at least one field, for an id without stored item,
\* is answered 500.
C8_UpdateOfMissingIdIs500 ==
    (Handled /\ Route = PUT_TASK /\ HasId /\ Id \notin DOMAIN pre /\ Named # {}) =>
        resp.statusCode = 500

\* C9: every invocation returns an envelope with a status among 200, 201,
\* 204, 400, 404, 500, the JSON content type, the wildcard origin header and
\* a serialized body; a failure of the table becomes 500, an unknown route
\* 404 and a missing id 400.
C9_AlwaysEnvelope ==
    Handled =>
        /\ resp.statusCode \in {200, 201, 204, 400, 404, 500}
        /\ DOMAIN resp.headers = {"Content-Type", "Access-Control-Allow-Origin"}
        /\ resp.headers["Content-Type"] = "application/json"
        /\ resp.headers["Access-Control-Allow-Origin"] = "*"
        /\ Parses(resp.body)
        /\ fault # <<>> =>
              /\ resp.statusCode = 500
              /\ resp.body \in {DumpsDict(Message(Text("Erro interno: ") \o fault)),
                                DumpsDict(Message(Text("Erro ao atualizar: ") \o fault))}
        /\ Route \notin {POST_TASKS, GET_TASK, PUT_TASK, DELETE_TASK, GET_TASKS} =>
              resp.statusCode = 404
        /\ (Route \in {GET_TASK, PUT_TASK, DELETE_TASK} /\ ~HasId) => resp.statusCode = 400

\* C9 witness: the table failed while a valid create was writing its item.
C9_Witness ==
    /\ Handled /\ Route = POST_TASKS /\ Given(KeyTitle) /\ Given(KeyDate)
    /\ fault # <<>>
    /\ resp.statusCode = 500

\* C10: an envelope with status 204 has an empty body; so has the envelope
\* of a successful delete.
C10_NoContentHasEmptyBody ==
    (Handled /\ resp.statusCode = 204) => resp.body = <<>>

====
